---- MODULE Spec2Model ----
(***************************************************************************)
(* Model of the Virtual-FTMW spectral synthesis functions:                 *)
(*   acquire_spectra, find_peaks          (acquire_spectra.py)             *)
(*   get_datafile, param_check, lorentzian_profile, add_white_noise,       *)
(*   apply_cavity_mode_response           (acquire_spectra_utils.py)       *)
(*                                                                         *)
(* Numbers.  float64 values are modelled in fixed point.  Frequencies are  *)
(* integers (one unit is one frequency step of the model), amplitudes are  *)
(* integers in thousandths, and the product of two amplitudes is kept in   *)
(* millionths, so no rounding happens in a product.  Array elements that   *)
(* can become non-finite carry an IEEE-754 tag: <<"fin", v>>,              *)
(* <<"inf", 1>>, <<"inf", -1>> or <<"nan", 0>>.                            *)
(***************************************************************************)
EXTENDS Integers, Sequences, FiniteSets, TLC

VARIABLES
    call,               \* which entry point this run calls
    params,             \* acquire_spectra: the params dict (key -> <<value>> or None)
    args,               \* acquire_spectra: window, resolution, fwhm, Q, Pmax
    catalog,            \* the line list stored in the molecule's data file
    pc,                 \* position in the called function
    check_ok,           \* value returned by param_check
    datafile,           \* value returned by get_datafile
    crop_min, crop_max, \* cropping bounds
    line_freq, line_intensity,
    individual_spectra, \* list of (local_grid, local_spectrum)
    final_grid, final_spectrum,
    accumulated,        \* final_spectrum as it was before any noise
    signal_noise,       \* the noise array drawn by add_white_noise(.., False)
    cavity_response,    \* inside apply_cavity_mode_response
    cavity_clean,       \* cavity_response as it was before its noise
    cavity_noise,       \* the noise array drawn by add_white_noise(.., True)
    k,                  \* loop index of the two for loops
    trace,              \* the stages executed so far, in order
    outcome,            \* "pending", "returned" or "raised"
    result,             \* the returned dict
    exception,          \* the exception that left the function
    x_data, y_data, threshold   \* find_peaks: its arguments

vars == <<call, params, args, catalog, pc, check_ok, datafile, crop_min,
          crop_max, line_freq, line_intensity, individual_spectra, final_grid,
          final_spectrum, accumulated, signal_noise, cavity_response,
          cavity_clean, cavity_noise, k, trace, outcome, result, exception,
          x_data, y_data, threshold>>

---------------------------------------------------------------------------
(* Python values *)

None == <<>>
Some(v) == <<v>>
Val(w) == w[1]

\* dict.get(key, default)
Get(d, key, default) == IF key \in DOMAIN d THEN d[key] ELSE default

---------------------------------------------------------------------------
(* float64 with its non-finite values *)

Fin(v) == <<"fin", v>>
PInf == <<"inf", 1>>
NaN == <<"nan", 0>>

IsNaN(a) == a[1] = "nan"
IsInf(a) == a[1] = "inf"
Sign(v) == IF v > 0 THEN 1 ELSE IF v < 0 THEN -1 ELSE 0
Abs(v) == IF v < 0 THEN -v ELSE v

FAdd(a, b) ==
    IF IsNaN(a) \/ IsNaN(b) THEN NaN
    ELSE IF IsInf(a) /\ IsInf(b) THEN (IF a[2] = b[2] THEN a ELSE NaN)
    ELSE IF IsInf(a) THEN a
    ELSE IF IsInf(b) THEN b
    ELSE Fin(a[2] + b[2])

FMul(a, b) ==
    IF IsNaN(a) \/ IsNaN(b) THEN NaN
    ELSE IF IsInf(a) \/ IsInf(b)
         THEN (IF Sign(a[2]) * Sign(b[2]) = 0 THEN NaN
               ELSE <<"inf", Sign(a[2]) * Sign(b[2])>>)
    ELSE Fin(a[2] * b[2])

FAbs(a) == IF IsNaN(a) THEN NaN ELSE <<a[1], Abs(a[2])>>

\* IEEE comparisons: every comparison with a NaN is false
FEq(a, b) == ~IsNaN(a) /\ ~IsNaN(b) /\ a = b
FGeZero(a) == ~IsNaN(a) /\ a[2] >= 0

---------------------------------------------------------------------------
(* numpy *)

\* an arange that keeps floor((stop - start) / step) points
Arange_floor(start, stop, step) ==
    LET n == IF stop > start THEN (stop - start) \div step ELSE 0
    IN  [i \in 1..n |-> start + (i - 1) * step]

\* np.arange(start, stop, step), step > 0: ceil((stop - start) / step) points
Arange(start, stop, step) ==
    LET n == IF stop > start THEN ((stop - start) + step - 1) \div step ELSE 0
    IN  [i \in 1..n |-> start + (i - 1) * step]

\* np.interp with its default left and right: the end values are held
Interp_held(x, xp, fp) ==
    LET n == Len(xp)
    IN  IF x < xp[1] THEN fp[1]
        ELSE IF x >= xp[n] THEN fp[n]
        ELSE LET j == CHOOSE j \in 1..(n - 1) : xp[j] <= x /\ x < xp[j + 1]
             IN  fp[j] + ((fp[j + 1] - fp[j]) * (x - xp[j])) \div (xp[j + 1] - xp[j])

\* np.interp(x, xp, fp, left=0, right=0) at one point x; xp increasing, non-empty
Interp(x, xp, fp) ==
    LET n == Len(xp)
    IN  IF x < xp[1] THEN 0
        ELSE IF x > xp[n] THEN 0
        ELSE IF x = xp[n] THEN fp[n]
        ELSE LET j == CHOOSE j \in 1..(n - 1) : xp[j] <= x /\ x < xp[j + 1]
             IN  fp[j] + ((fp[j + 1] - fp[j]) * (x - xp[j])) \div (xp[j + 1] - xp[j])

RECURSIVE ISqrtFrom(_, _)
ISqrtFrom(n, r) == IF (r + 1) * (r + 1) > n THEN r ELSE ISqrtFrom(n, r + 1)
\* floor of the square root
ISqrt(n) == ISqrtFrom(n, 0)

\* np.sqrt(c) of a number, in tenths: nan for c < 0 (numpy warns, does not raise)
NpSqrtTenths(c) == IF c < 0 THEN NaN ELSE Fin(ISqrt(c * 100))

\* base / s for a positive base in thousandths and s in tenths:
\* numpy float division gives inf for s = 0 and nan for s = nan
NpDivide(base, s) ==
    IF IsNaN(s) THEN NaN
    ELSE IF s[2] = 0 THEN PInf
    ELSE Fin((base * 10) \div s[2])

\* The standard-normal draw at index i for generator state s, as a small integer
Draw(s, i) ==
    CASE s = 1 -> -1
      [] s = 2 -> IF i % 2 = 0 THEN 1 ELSE -1
      [] OTHER -> ((s + i) % 3) - 1

\* np.random.normal(0, noise_level, shape): loc + scale * draw, element by element
RandomNormal(noise_level, n, s) ==
    [i \in 1..n |-> FAdd(Fin(0), FMul(noise_level, Fin(Draw(s, i))))]

---------------------------------------------------------------------------
(* acquire_spectra_utils.py *)

\* molecule_to_file of get_datafile
molecule_to_file ==
    [m \in {"C6H5CN", "HC7N", "CH2CHCN", "CH2CHOH", "HOCH2CH2OH", "NH2CONH2",
            "OC3S", "OCS"} |-> <<m, ".dat">>]

\* get_datafile, when the molecule is mapped: os.path.join(directory, filename)
get_datafile(molecule) == <<"linelists", molecule_to_file[molecule]>>

valid_params ==
    {"molecule", "stepSize", "frequencyMin", "frequencyMax", "numCyclesPerStep",
     "microwavePulseWidth", "mwBand", "repetitionRate", "molecularPulseWidth",
     "acquisitionType", "vres"}

\* number of parameters param_check expects
NumParams == 11

\* param_check without the "is None" test of its loop
param_check_keeps_null(p) ==
    IF Cardinality(DOMAIN p) # NumParams THEN FALSE
    ELSE \A key \in DOMAIN p : key \in valid_params

\* param_check without its length test
param_check_no_length(p) ==
    \A key \in DOMAIN p : ~((key \notin valid_params) \/ (p[key] = None))

\* param_check: the length test, then the loop over params.items()
param_check(p) ==
    IF Cardinality(DOMAIN p) # NumParams THEN FALSE
    ELSE \A key \in DOMAIN p : ~((key \notin valid_params) \/ (p[key] = None))

\* 1 / np.pi, in thousandths
InvPiMilli == 318

\* lorentzian_profile at one grid point
lorentzian_profile(g, center, fwhm) ==
    LET hwhm == fwhm \div 2
    IN  (InvPiMilli * hwhm) \div ((g - center) * (g - center) + hwhm * hwhm)

\* the base noise levels 0.01 and 0.05, in thousandths
CavityNoiseBase == 10
SignalNoiseBase == 50

\* noise_level of add_white_noise
noise_level(num_cycles_per_step, is_cavity_mode) ==
    IF is_cavity_mode
    THEN NpDivide(CavityNoiseBase, NpSqrtTenths(num_cycles_per_step))
    ELSE NpDivide(SignalNoiseBase, NpSqrtTenths(num_cycles_per_step))

\* the noise array add_white_noise draws for a spectrum of n points
white_noise(n, num_cycles_per_step, is_cavity_mode, s) ==
    RandomNormal(noise_level(num_cycles_per_step, is_cavity_mode), n, s)

\* add_white_noise: spectrum + noise
add_white_noise(spectrum, noise) ==
    [i \in 1..Len(spectrum) |-> FAdd(spectrum[i], noise[i])]

\* one cavity mode at one grid point: Pmax * ((gamma/2)^2 / ((g - center)^2 + (gamma/2)^2))
cavity_mode(g, center, Q, Pmax) ==
    LET gamma == center \div Q
        half == gamma \div 2
    IN  (Pmax * (half * half)) \div ((g - center) * (g - center) + half * half)

RECURSIVE SumModes(_, _, _, _, _)
SumModes(g, centers, Q, Pmax, n) ==
    IF n = 0 THEN 0
    ELSE SumModes(g, centers, Q, Pmax, n - 1) + cavity_mode(g, centers[n], Q, Pmax)

\* cavity_response of apply_cavity_mode_response in "single" mode
single_response(frequency_grid, v_res, Q, Pmax) ==
    [i \in 1..Len(frequency_grid) |-> Fin(cavity_mode(frequency_grid[i], v_res, Q, Pmax))]

\* cavity_response of apply_cavity_mode_response in "range" mode
range_response(frequency_grid, frequency_min, frequency_max, stepSize, Q, Pmax) ==
    LET centers == Arange(frequency_min, frequency_max + stepSize, stepSize)
    IN  [i \in 1..Len(frequency_grid) |->
            Fin(SumModes(frequency_grid[i], centers, Q, Pmax, Len(centers)))]

---------------------------------------------------------------------------
(* acquire_spectra.py: the pieces of acquire_spectra *)

\* speed of light and helium velocity, m/s
c_SI == 299792458
vrms == 1760

InvalidParamsMsg ==
    "One of the given parameters was invalid. Please change some settings and try again."
NoDataFileError == "ValueError: No data file mapping found for molecule"
RangeBoundsError ==
    "ValueError: For frequency range mode, 'frequencyMin' and 'frequencyMax' must be provided."
UnboundCavityError == "UnboundLocalError: cavity_response"
\* arithmetic on a None value
NoneTypeError == "TypeError: NoneType"

\* mask_lines without the window margin
mask_lines_no_margin(f, window, cmin, cmax) == (f >= cmin) /\ (f <= cmax)

\* mask_lines for one line
mask_lines(f, window, cmin, cmax) == (f + window >= cmin) /\ (f - window <= cmax)

\* the indices of a sequence that satisfy the mask, in order
RECURSIVE Masked(_, _, _, _, _)
Masked(freqs, window, cmin, cmax, n) ==
    IF n = 0 THEN <<>>
    ELSE LET rest == Masked(freqs, window, cmin, cmax, n - 1)
         IN  IF mask_lines(freqs[n], window, cmin, cmax) THEN Append(rest, n) ELSE rest

\* a local grid that stops at the line centre
local_grid_lower_half(f, window, resolution) == Arange(f - window, f, resolution)

\* local_grid of one line
local_grid_of(f, window, resolution) == Arange(f - window, f + window, resolution)

\* local_spectrum of one line: the two split Lorentzians, scaled by I
local_spectrum_of(f, I, window, resolution, fwhm) ==
    LET grid == local_grid_of(f, window, resolution)
        split_val == (f * vrms) \div c_SI
        add_split == f + split_val
        subtract_split == f - split_val
    IN  [i \in 1..Len(grid) |->
            I * lorentzian_profile(grid[i], add_split, fwhm)
          + I * lorentzian_profile(grid[i], subtract_split, fwhm)]

\* one pass of the accumulation loop: final_spectrum += np.interp(...)
accumulate_one(spectrum, grid, local) ==
    [i \in 1..Len(grid) |->
        FAdd(spectrum[i], Fin(Interp(grid[i], local.grid, local.spectrum)))]

\* spectrum * cavity_response
multiply(spectrum, response) ==
    [i \in 1..Len(spectrum) |-> FMul(spectrum[i], response[i])]

\* np.abs
np_abs(spectrum) == [i \in 1..Len(spectrum) |-> FAbs(spectrum[i])]

---------------------------------------------------------------------------
(* find_peaks *)

\* round(v, 4) of a value held in units of 1e-5: to the nearest multiple of 10,
\* a tie going to the even fourth decimal
Round4(v) ==
    LET q == v \div 10
        r == v % 10
    IN  IF r < 5 THEN q * 10
        ELSE IF r > 5 THEN (q + 1) * 10
        ELSE IF q % 2 = 0 THEN q * 10 ELSE (q + 1) * 10

\* peaks[key] = value
SetItem(d, key, value) ==
    [e \in (DOMAIN d) \cup {key} |-> IF e = key THEN value ELSE d[e]]

Min(a, b) == IF a < b THEN a ELSE b

\* the loop of find_peaks with a strict comparison
RECURSIVE peaks_loop_strict(_, _, _, _)
peaks_loop_strict(x, y, thr, n) ==
    IF n = 0 THEN <<>>
    ELSE LET peaks == peaks_loop_strict(x, y, thr, n - 1)
         IN  IF y[n] > thr THEN SetItem(peaks, Round4(x[n]), Round4(y[n]))
             ELSE peaks

\* the for loop of find_peaks over zip(x_data, y_data), after n pairs
RECURSIVE peaks_loop(_, _, _, _)
peaks_loop(x, y, thr, n) ==
    IF n = 0 THEN <<>>
    ELSE LET peaks == peaks_loop(x, y, thr, n - 1)
         IN  IF y[n] >= thr THEN SetItem(peaks, Round4(x[n]), Round4(y[n]))
             ELSE peaks

\* find_peaks: zip stops at the shorter list; nothing in the body raises
find_peaks(x, y, thr) ==
    [success |-> TRUE, peaks |-> peaks_loop(x, y, thr, Min(Len(x), Len(y)))]

---------------------------------------------------------------------------
(* inputs *)

MaxLines == 2       \* lines in a catalog
MaxDefects == 2     \* keys of a request that are missing, null or unexpected
NumSeeds == 2       \* states of the random generator
MaxLen == 3         \* length of the lists given to find_peaks

Molecules == {"OCS", "H2O"}
Modes == {"single", "range", "sweep"}
CycleValues == {-1, 0, 1, 2}
VResValues == {400000}
\* (frequencyMin, frequencyMax)
Ranges == {<<400000, 400001>>, <<400000, 400002>>}
StepSizes == {2}
Windows == {3, 4}
Resolutions == {1, 2}
Lines == {<<399990, 1>>, <<399993, 3>>, <<400001, 2>>, <<400007, 1>>, <<400008, 2>>}
ExtraKeys == {"resolution"}

\* the defaults Q=10000 and Pmax=1.0 (in thousandths) of acquire_spectra
Q_default == 10000
Pmax_default == 1000
\* fwhm, in frequency units of the model
FwhmValues == {2}

SubsetsUpTo(S, n) == {T \in SUBSET S : Cardinality(T) <= n}
SeqsUpTo(S, n) == UNION {[1..m -> S] : m \in 0..n}

Request(mol, mode, range, cyc, step, v_res) ==
    [molecule |-> Some(mol), stepSize |-> Some(step),
     frequencyMin |-> Some(range[1]), frequencyMax |-> Some(range[2]),
     numCyclesPerStep |-> Some(cyc), microwavePulseWidth |-> Some(1),
     mwBand |-> Some(1), repetitionRate |-> Some(1),
     molecularPulseWidth |-> Some(1), acquisitionType |-> Some(mode),
     vres |-> Some(v_res)]

\* a request with some keys dropped, some values null and some keys added
Defective(p, dropped, nulled, added) ==
    [key \in ((DOMAIN p) \ dropped) \cup added |->
        IF key \in added THEN Some(1)
        ELSE IF key \in nulled THEN None ELSE p[key]]

Args == [window : Windows, resolution : Resolutions, fwhm : FwhmValues,
         Q : {Q_default}, Pmax : {Pmax_default}]

XValues == {100000, 200000, 200005, 300000}
YValues == {10000, 20000, 60000, 60004}
Thresholds == {20000, 50000}

NoResult == [pending |-> TRUE]

Locals0 ==
    /\ pc = "start"
    /\ check_ok = FALSE
    /\ datafile = None
    /\ crop_min = 0
    /\ crop_max = 0
    /\ line_freq = <<>>
    /\ line_intensity = <<>>
    /\ individual_spectra = <<>>
    /\ final_grid = <<>>
    /\ final_spectrum = <<>>
    /\ accumulated = <<>>
    /\ signal_noise = <<>>
    /\ cavity_response = <<>>
    /\ cavity_clean = <<>>
    /\ cavity_noise = <<>>
    /\ k = 1
    /\ trace = <<>>
    /\ outcome = "pending"
    /\ result = NoResult
    /\ exception = ""

\* a call of acquire_spectra with every key present and non-null
InitValid ==
    /\ call = "acquire_spectra"
    /\ \E mol \in Molecules, mode \in Modes, range \in Ranges, cyc \in CycleValues,
          step \in StepSizes, v_res \in VResValues :
          params = Request(mol, mode, range, cyc, step, v_res)
    /\ args \in Args
    /\ catalog \in SeqsUpTo(Lines, MaxLines)
    /\ x_data = <<>> /\ y_data = <<>> /\ threshold = 0
    /\ Locals0

\* a call of acquire_spectra with a malformed request
InitDefective ==
    /\ call = "acquire_spectra"
    /\ \E mode \in Modes, dropped \in SubsetsUpTo(valid_params, MaxDefects),
          nulled \in SubsetsUpTo(valid_params, MaxDefects), added \in SUBSET ExtraKeys :
          /\ dropped \cap nulled = {}
          /\ Cardinality(dropped) + Cardinality(nulled) + Cardinality(added) \in 1..MaxDefects
          /\ params = Defective(Request("OCS", mode, <<400000, 400002>>, 2, 2, 400000),
                                dropped, nulled, added)
    /\ args = [window |-> 4, resolution |-> 1, fwhm |-> 2,
               Q |-> Q_default, Pmax |-> Pmax_default]
    /\ catalog = <<<<400001, 2>>>>
    /\ x_data = <<>> /\ y_data = <<>> /\ threshold = 0
    /\ Locals0

\* a call of find_peaks
InitPeaks ==
    /\ call = "find_peaks"
    /\ x_data \in SeqsUpTo(XValues, MaxLen)
    /\ y_data \in SeqsUpTo(YValues, MaxLen)
    /\ threshold \in Thresholds
    /\ params = <<>> /\ args = <<>> /\ catalog = <<>>
    /\ Locals0

\* a call of acquire_spectra on a catalog holding the single line (100, 1), with
\* window=5 and resolution=1, the cavity centred on the line
InitSingleLine ==
    /\ call = "acquire_spectra"
    /\ \E cyc \in CycleValues, mode \in Modes :
          params = Request("OCS", mode, <<100, 101>>, cyc, 1, 100)
    /\ args = [window |-> 5, resolution |-> 1, fwhm |-> 2, Q |-> 10,
               Pmax |-> Pmax_default]
    /\ catalog = <<<<100, 1>>>>
    /\ x_data = <<>> /\ y_data = <<>> /\ threshold = 0
    /\ Locals0

Init == InitValid \/ InitDefective \/ InitSingleLine \/ InitPeaks

---------------------------------------------------------------------------
(* acquire_spectra, step by step *)

Did(stage) == \E i \in 1..Len(trace) : trace[i] = stage

Raise(e) ==
    /\ outcome' = "raised"
    /\ exception' = e
    /\ pc' = "done"
    /\ UNCHANGED result

Return(r) ==
    /\ outcome' = "returned"
    /\ result' = r
    /\ pc' = "done"
    /\ UNCHANGED exception

Goto(next) ==
    /\ pc' = next
    /\ UNCHANGED <<outcome, result, exception>>

inputs == <<call, params, args, catalog, x_data, y_data, threshold>>

\* if not param_check(params): return {"success": False, "error": ...}
ParamCheck ==
    /\ call = "acquire_spectra" /\ pc = "start"
    /\ check_ok' = param_check(params)
    /\ trace' = Append(trace, "param_check")
    /\ IF check_ok'
       THEN Goto("get_datafile")
       ELSE Return([success |-> FALSE, error |-> InvalidParamsMsg])
    /\ UNCHANGED <<inputs, datafile, crop_min, crop_max, line_freq, line_intensity,
                   individual_spectra, final_grid, final_spectrum, accumulated,
                   signal_noise, cavity_response, cavity_clean, cavity_noise, k>>

\* datafile = get_datafile(molecule)
GetDatafile ==
    /\ pc = "get_datafile"
    /\ trace' = Append(trace, "get_datafile")
    /\ LET molecule == Get(params, "molecule", None)
       IN  IF molecule = None \/ Val(molecule) \notin DOMAIN molecule_to_file
           THEN Raise(NoDataFileError) /\ UNCHANGED datafile
           ELSE Goto("crop") /\ datafile' = get_datafile(Val(molecule))
    /\ UNCHANGED <<inputs, check_ok, crop_min, crop_max, line_freq, line_intensity,
                   individual_spectra, final_grid, final_spectrum, accumulated,
                   signal_noise, cavity_response, cavity_clean, cavity_noise, k>>

\* the cropping bounds: "single" uses vres, every other mode the range bounds
CropBounds ==
    /\ pc = "crop"
    /\ trace' = Append(trace, "crop")
    /\ LET frequencyMode == Get(params, "acquisitionType", Some("single"))
           v_res == Get(params, "vres", None)
           frequency_min == Get(params, "frequencyMin", None)
           frequency_max == Get(params, "frequencyMax", None)
       IN  IF frequencyMode = Some("single")
           THEN IF v_res = None
                THEN Raise(NoneTypeError) /\ UNCHANGED <<crop_min, crop_max>>
                ELSE /\ crop_min' = Val(v_res) - args.window
                     /\ crop_max' = Val(v_res) + args.window
                     /\ Goto("read")
           ELSE IF frequency_min = None \/ frequency_max = None
           THEN Raise(RangeBoundsError) /\ UNCHANGED <<crop_min, crop_max>>
           ELSE /\ crop_min' = Val(frequency_min) - args.window
                /\ crop_max' = Val(frequency_max) + args.window
                /\ Goto("read")
    /\ UNCHANGED <<inputs, check_ok, datafile, line_freq, line_intensity,
                   individual_spectra, final_grid, final_spectrum, accumulated,
                   signal_noise, cavity_response, cavity_clean, cavity_noise, k>>

\* df = pd.read_csv(datafile, ...); line_freq, line_intensity
ReadCatalog ==
    /\ pc = "read"
    /\ trace' = Append(trace, "read_catalog")
    /\ line_freq' = [i \in 1..Len(catalog) |-> catalog[i][1]]
    /\ line_intensity' = [i \in 1..Len(catalog) |-> catalog[i][2]]
    /\ Goto("filter")
    /\ UNCHANGED <<inputs, check_ok, datafile, crop_min, crop_max,
                   individual_spectra, final_grid, final_spectrum, accumulated,
                   signal_noise, cavity_response, cavity_clean, cavity_noise, k>>

\* line_intensity = line_intensity[mask_lines]; line_freq = line_freq[mask_lines]
FilterLines ==
    /\ pc = "filter"
    /\ trace' = Append(trace, "filter")
    /\ LET keep == Masked(line_freq, args.window, crop_min, crop_max, Len(line_freq))
       IN  /\ line_freq' = [i \in 1..Len(keep) |-> line_freq[keep[i]]]
           /\ line_intensity' = [i \in 1..Len(keep) |-> line_intensity[keep[i]]]
           /\ Goto(IF Len(keep) = 0 THEN "grid" ELSE "build")
    /\ k' = 1
    /\ UNCHANGED <<inputs, check_ok, datafile, crop_min, crop_max,
                   individual_spectra, final_grid, final_spectrum, accumulated,
                   signal_noise, cavity_response, cavity_clean, cavity_noise>>

\* one pass of: for f, I in zip(line_freq, line_intensity)
BuildLocal ==
    /\ pc = "build"
    /\ trace' = Append(trace, "build_local")
    /\ individual_spectra' = Append(individual_spectra,
          [grid |-> local_grid_of(line_freq[k], args.window, args.resolution),
           spectrum |-> local_spectrum_of(line_freq[k], line_intensity[k],
                                          args.window, args.resolution, args.fwhm)])
    /\ k' = k + 1
    /\ Goto(IF k = Len(line_freq) THEN "grid" ELSE "build")
    /\ UNCHANGED <<inputs, check_ok, datafile, crop_min, crop_max, line_freq,
                   line_intensity, final_grid, final_spectrum, accumulated,
                   signal_noise, cavity_response, cavity_clean, cavity_noise>>

\* final_grid = np.arange(crop_min, crop_max, resolution); final_spectrum = zeros
DefineGrid ==
    /\ pc = "grid"
    /\ trace' = Append(trace, "define_grid")
    /\ final_grid' = Arange(crop_min, crop_max, args.resolution)
    /\ final_spectrum' = [i \in 1..Len(final_grid') |-> Fin(0)]
    /\ k' = 1
    /\ Goto(IF Len(individual_spectra) = 0 THEN "signal_noise" ELSE "accumulate")
    /\ UNCHANGED <<inputs, check_ok, datafile, crop_min, crop_max, line_freq,
                   line_intensity, individual_spectra, accumulated,
                   signal_noise, cavity_response, cavity_clean, cavity_noise>>

\* one pass of: for local_grid, local_spec in individual_spectra
Accumulate ==
    /\ pc = "accumulate"
    /\ trace' = Append(trace, "accumulate")
    /\ final_spectrum' = accumulate_one(final_spectrum, final_grid, individual_spectra[k])
    /\ k' = k + 1
    /\ Goto(IF k = Len(individual_spectra) THEN "signal_noise" ELSE "accumulate")
    /\ UNCHANGED <<inputs, check_ok, datafile, crop_min, crop_max, line_freq,
                   line_intensity, individual_spectra, final_grid, accumulated,
                   signal_noise, cavity_response, cavity_clean, cavity_noise>>

\* final_spectrum = add_white_noise(final_spectrum, cyclesPerStep, is_cavity_mode=False)
AddSignalNoise ==
    /\ pc = "signal_noise"
    /\ trace' = Append(trace, "signal_noise")
    /\ LET cyclesPerStep == Get(params, "numCyclesPerStep", None)
       IN  IF cyclesPerStep = None
           THEN /\ Raise(NoneTypeError)
                /\ UNCHANGED <<signal_noise, accumulated, final_spectrum>>
           ELSE /\ \E s \in 1..NumSeeds :
                      signal_noise' = white_noise(Len(final_spectrum),
                                                  Val(cyclesPerStep), FALSE, s)
                /\ accumulated' = final_spectrum
                /\ final_spectrum' = add_white_noise(final_spectrum, signal_noise')
                /\ Goto("cavity_response")
    /\ UNCHANGED <<inputs, check_ok, datafile, crop_min, crop_max, line_freq,
                   line_intensity, individual_spectra, final_grid,
                   cavity_response, cavity_clean, cavity_noise, k>>

\* apply_cavity_mode_response, up to the use of cavity_response: a mode that is
\* neither "single" nor "range" leaves cavity_response unassigned
CavityResponse ==
    /\ pc = "cavity_response"
    /\ trace' = Append(trace, "cavity_response")
    /\ LET frequencyMode == Get(params, "acquisitionType", Some("single"))
           v_res == Get(params, "vres", None)
           frequency_min == Get(params, "frequencyMin", None)
           frequency_max == Get(params, "frequencyMax", None)
           stepSize == Get(params, "stepSize", None)
       IN  IF frequencyMode = Some("single")
           THEN /\ cavity_response' = single_response(final_grid, Val(v_res), args.Q, args.Pmax)
                /\ Goto("cavity_noise")
           ELSE IF frequencyMode = Some("range")
           THEN IF frequency_min = None \/ frequency_max = None \/ stepSize = None
                THEN Raise(RangeBoundsError) /\ UNCHANGED cavity_response
                ELSE /\ cavity_response' =
                           range_response(final_grid, Val(frequency_min),
                                          Val(frequency_max), Val(stepSize),
                                          args.Q, args.Pmax)
                     /\ Goto("cavity_noise")
           ELSE Raise(UnboundCavityError) /\ UNCHANGED cavity_response
    /\ UNCHANGED <<inputs, check_ok, datafile, crop_min, crop_max, line_freq,
                   line_intensity, individual_spectra, final_grid, final_spectrum,
                   accumulated, signal_noise, cavity_clean, cavity_noise, k>>

\* cavity_response = add_white_noise(cavity_response, num_cycles_per_step, is_cavity_mode=True)
CavityNoise ==
    /\ pc = "cavity_noise"
    /\ trace' = Append(trace, "cavity_noise")
    /\ \E s \in 1..NumSeeds :
          LET num_cycles_per_step == Val(Get(params, "numCyclesPerStep", Some(1)))
          IN  cavity_noise' = white_noise(Len(cavity_response), num_cycles_per_step, TRUE, s)
    /\ cavity_clean' = cavity_response
    /\ cavity_response' = add_white_noise(cavity_response, cavity_noise')
    /\ Goto("multiply")
    /\ UNCHANGED <<inputs, check_ok, datafile, crop_min, crop_max, line_freq,
                   line_intensity, individual_spectra, final_grid, final_spectrum,
                   accumulated, signal_noise, k>>

\* a multiplication by the response as it was before its noise
Multiply_clean_response ==
    /\ pc = "multiply"
    /\ trace' = Append(trace, "multiply")
    /\ final_spectrum' = multiply(final_spectrum, cavity_clean)
    /\ Goto("abs")
    /\ UNCHANGED <<inputs, check_ok, datafile, crop_min, crop_max, line_freq,
                   line_intensity, individual_spectra, final_grid, accumulated,
                   signal_noise, cavity_response, cavity_clean, cavity_noise, k>>

\* return spectrum * cavity_response
Multiply ==
    /\ pc = "multiply"
    /\ trace' = Append(trace, "multiply")
    /\ final_spectrum' = multiply(final_spectrum, cavity_response)
    /\ Goto("abs")
    /\ UNCHANGED <<inputs, check_ok, datafile, crop_min, crop_max, line_freq,
                   line_intensity, individual_spectra, final_grid, accumulated,
                   signal_noise, cavity_response, cavity_clean, cavity_noise, k>>

\* final_spectrum = np.abs(final_spectrum)
TakeAbs ==
    /\ pc = "abs"
    /\ trace' = Append(trace, "abs")
    /\ final_spectrum' = np_abs(final_spectrum)
    /\ Goto("csv")
    /\ UNCHANGED <<inputs, check_ok, datafile, crop_min, crop_max, line_freq,
                   line_intensity, individual_spectra, final_grid, accumulated,
                   signal_noise, cavity_response, cavity_clean, cavity_noise, k>>

\* output_df.to_csv("spectrum.csv"), then return {"success": True, "x": ..., "y": ...}
WriteAndReturn ==
    /\ pc = "csv"
    /\ trace' = Append(trace, "write_csv")
    /\ Return([success |-> TRUE, x |-> final_grid, y |-> final_spectrum])
    /\ UNCHANGED <<inputs, check_ok, datafile, crop_min, crop_max, line_freq,
                   line_intensity, individual_spectra, final_grid, final_spectrum,
                   accumulated, signal_noise, cavity_response, cavity_clean,
                   cavity_noise, k>>

\* find_peaks(x_data, y_data, threshold)
FindPeaks ==
    /\ call = "find_peaks" /\ pc = "start"
    /\ trace' = Append(trace, "find_peaks")
    /\ Return(find_peaks(x_data, y_data, threshold))
    /\ UNCHANGED <<inputs, check_ok, datafile, crop_min, crop_max, line_freq,
                   line_intensity, individual_spectra, final_grid, final_spectrum,
                   accumulated, signal_noise, cavity_response, cavity_clean,
                   cavity_noise, k>>

Next ==
    \/ ParamCheck
    \/ GetDatafile
    \/ CropBounds
    \/ ReadCatalog
    \/ FilterLines
    \/ BuildLocal
    \/ DefineGrid
    \/ Accumulate
    \/ AddSignalNoise
    \/ CavityResponse
    \/ CavityNoise
    \/ Multiply
    \/ TakeAbs
    \/ WriteAndReturn
    \/ FindPeaks

Spec == Init /\ [][Next]_vars

---------------------------------------------------------------------------
(* Properties *)

Acquire == call = "acquire_spectra"
Done == pc = "done"
Failed == outcome = "raised" \/ (outcome = "returned" /\ ~result.success)
StructuredFailure == outcome = "returned" /\ ~result.success
Success == Acquire /\ outcome = "returned" /\ result.success

\* the catalog was not read, no local spectrum built, no global grid, no spectrum.csv
NoComputation ==
    /\ ~Did("read_catalog")
    /\ ~Did("build_local") /\ individual_spectra = <<>>
    /\ ~Did("define_grid") /\ final_grid = <<>>
    /\ ~Did("write_csv")

\* every key present and non-null, the molecule mapped
WellFormed == param_check(params) /\ Val(params["molecule"]) \in DOMAIN molecule_to_file

\* C1: every call of acquire_spectra ends by returning a result dict, never by an
\* exception leaving the function.
C1_AlwaysReturnsResult ==
    (Acquire /\ Done) =>
        /\ outcome = "returned"
        /\ \/ result.success /\ DOMAIN result = {"success", "x", "y"}
           \/ ~result.success /\ DOMAIN result = {"success", "error"}

RangeMissingBound ==
    /\ Acquire
    /\ Get(params, "acquisitionType", None) = Some("range")
    /\ \/ Get(params, "frequencyMax", None) = None
       \/ Get(params, "frequencyMin", None) = None

\* C2 (as amended): a range request whose frequencyMin or frequencyMax is absent or
\* null is rejected by the parameter check: acquire_spectra returns the
\* invalid-parameter failure dict, raises nothing, and does no computation.
C2_MissingBoundRejectedByCheck ==
    RangeMissingBound =>
        /\ NoComputation
        /\ exception = ""
        /\ Done => /\ outcome = "returned"
                   /\ result = [success |-> FALSE, error |-> InvalidParamsMsg]

C2_Witness ==
    /\ RangeMissingBound /\ Done
    /\ "frequencyMax" \in DOMAIN params /\ params["frequencyMax"] = None
    /\ "frequencyMin" \in DOMAIN params /\ params["frequencyMin"] # None

\* C2 (as stated): such a request ends in the MissingRangeBounds failure, the one
\* the range branch reports, with no computation done.
C2_EndsInMissingRangeBounds ==
    (RangeMissingBound /\ Done) =>
        /\ NoComputation
        /\ \/ outcome = "raised" /\ exception = RangeBoundsError
           \/ outcome = "returned" /\ ~result.success /\ result.error = RangeBoundsError

\* C3: whenever add_white_noise is given a cycle count <= 0 the operation fails
\* and no noisy spectrum is produced.
C3_NonPositiveCyclesFail ==
    (Acquire /\ Did("signal_noise") /\ WellFormed
       /\ Val(params["numCyclesPerStep"]) <= 0) =>
        /\ Done /\ Failed
        /\ signal_noise = <<>>

\* C4: a request whose acquisitionType is neither "single" nor "range" ends as a
\* structured failure, never as a success and never as an exception.
C4_InvalidModeStructuredFailure ==
    (Acquire /\ Done /\ WellFormed
       /\ Val(params["numCyclesPerStep"]) > 0
       /\ params["acquisitionType"] \notin {Some("single"), Some("range")}) =>
        StructuredFailure

\* the catalog lines the mask drops
Dropped ==
    {i \in 1..Len(catalog) :
        ~mask_lines(catalog[i][1], args.window, crop_min, crop_max)}

local_of(i) ==
    [grid |-> local_grid_of(catalog[i][1], args.window, args.resolution),
     spectrum |-> local_spectrum_of(catalog[i][1], catalog[i][2], args.window,
                                    args.resolution, args.fwhm)]

\* the accumulation over the first n lines of the whole catalog, nothing cropped
RECURSIVE AccumulateAll(_)
AccumulateAll(n) ==
    IF n = 0 THEN [i \in 1..Len(final_grid) |-> Fin(0)]
    ELSE accumulate_one(AccumulateAll(n - 1), final_grid, local_of(n))

\* C5: once the accumulation loop has ended, every line the mask dropped
\* interpolates to zero at every point of the global grid, and the accumulated
\* spectrum equals the one accumulated from the whole, uncropped catalog.
C5_CroppingIsConservative ==
    (Acquire /\ pc = "signal_noise") =>
        /\ \A i \in Dropped : \A j \in 1..Len(final_grid) :
              Interp(final_grid[j], local_of(i).grid, local_of(i).spectrum) = 0
        /\ final_spectrum = AccumulateAll(Len(catalog))

C5_Witness ==
    /\ Acquire /\ pc = "signal_noise"
    /\ Dropped # {} /\ Len(line_freq) > 0 /\ Len(final_grid) > 0
    /\ \A i \in Dropped : \A j \in 1..Len(local_of(i).spectrum) :
          local_of(i).spectrum[j] > 0
    /\ \E j \in 1..Len(final_spectrum) : final_spectrum[j] # Fin(0)

Peaks == call = "find_peaks"
Retained(i) == y_data[i] >= threshold

\* C6: for equal-length x and y, find_peaks succeeds; every retained index has its
\* rounded x as a key; every key maps to the rounded y of the last retained index
\* that rounds to it; find_peaks([1,2,3],[0.1,0.6,0.2],0.5) gives {2: 0.6}.
C6_PeaksMapping ==
    (Peaks /\ Done /\ Len(x_data) = Len(y_data)) =>
        /\ outcome = "returned" /\ result.success
        /\ \A i \in 1..Len(x_data) :
              Retained(i) => Round4(x_data[i]) \in DOMAIN result.peaks
        /\ \A key \in DOMAIN result.peaks :
              \E i \in 1..Len(x_data) :
                 /\ Retained(i) /\ Round4(x_data[i]) = key
                 /\ result.peaks[key] = Round4(y_data[i])
                 /\ \A j \in (i + 1)..Len(x_data) :
                       ~(Retained(j) /\ Round4(x_data[j]) = key)
        /\ (x_data = <<100000, 200000, 300000>> /\ y_data = <<10000, 60000, 20000>>
              /\ threshold = 50000) =>
              (DOMAIN result.peaks = {200000} /\ result.peaks[200000] = 60000)

C6_Witness ==
    /\ Peaks /\ Done /\ Len(x_data) = 3 /\ Len(y_data) = 3
    /\ ~Retained(2)
    /\ Retained(1) /\ Retained(3)
    /\ x_data[1] # x_data[3] /\ Round4(x_data[1]) = Round4(x_data[3])
    /\ Round4(y_data[1]) # Round4(y_data[3])
    /\ result.peaks[Round4(x_data[1])] = Round4(y_data[3])

\* C7: given x and y of different lengths, find_peaks returns success=false with
\* an error message and no peaks mapping.
C7_MismatchedLengthsFail ==
    (Peaks /\ Done /\ Len(x_data) # Len(y_data)
       /\ Len(x_data) > 0 /\ Len(y_data) > 0) =>
        /\ outcome = "returned" /\ ~result.success
        /\ "peaks" \notin DOMAIN result

\* C8: in every success result x and y have equal length and every y[i] equals
\* |(accumulated[i] + signalNoise[i]) * (cavityResponse[i] + cavityNoise[i])|
\* and is >= 0.
C8_OutputIsMagnitude ==
    (Success /\ Done) =>
        /\ Len(result.x) = Len(result.y)
        /\ \A i \in 1..Len(result.y) :
              /\ FEq(result.y[i],
                     FAbs(FMul(FAdd(accumulated[i], signal_noise[i]),
                               FAdd(cavity_clean[i], cavity_noise[i]))))
              /\ FGeZero(result.y[i])

\* C9: param_check returns true exactly when the key set is the 11 expected names
\* and every value is non-null; when it returns false acquire_spectra looks up no
\* data file and computes nothing.
C9_ParamCheckExact ==
    (Acquire /\ Did("param_check")) =>
        /\ check_ok <=> /\ DOMAIN params = valid_params
                        /\ \A key \in valid_params : params[key] # None
        /\ ~check_ok => /\ ~Did("get_datafile") /\ datafile = None
                        /\ NoComputation
                        /\ Done /\ StructuredFailure

C9_Witness ==
    /\ Acquire /\ Done /\ ~check_ok
    /\ Cardinality(DOMAIN params) = NumParams
    /\ DOMAIN params # valid_params
    /\ \A key \in DOMAIN params : params[key] # None

\* a grid is start, start + resolution, ... with n points
IsGrid(grid, start, resolution, n) ==
    /\ Len(grid) = n
    /\ n > 0 => grid[1] = start
    /\ \A i \in 1..(n - 1) : grid[i + 1] - grid[i] = resolution /\ grid[i] < grid[i + 1]

CeilDiv(a, b) == (a + b - 1) \div b
FloorDiv(a, b) == a \div b

SingleLineBuilt(i) ==
    /\ i \in 1..Len(individual_spectra)
    /\ line_freq[i] = 100 /\ line_intensity[i] = 1
    /\ args.window = 5 /\ args.resolution = 1

\* C11 (as amended): for the line (100, 1) with window=5 and resolution=1 the
\* local grid is [95, 96, ..., 104]: 10 points, half-open (105 is left out).
C11_LocalGridIsTenPoints ==
    Acquire =>
        \A i \in 1..Len(individual_spectra) :
            SingleLineBuilt(i) =>
                /\ individual_spectra[i].grid = <<95, 96, 97, 98, 99, 100, 101, 102, 103, 104>>
                /\ Len(individual_spectra[i].spectrum) = 10

C11_Witness ==
    /\ Acquire /\ Done /\ outcome = "returned"
    /\ SingleLineBuilt(1)
    /\ individual_spectra[1].grid[10] = 104

\* C11 (as stated): for that line the local grid is [95, 96, ..., 99]: 5 points.
C11_LocalGridIsFivePoints ==
    Acquire =>
        \A i \in 1..Len(individual_spectra) :
            SingleLineBuilt(i) => individual_spectra[i].grid = <<95, 96, 97, 98, 99>>

\* global grid point j lies strictly outside the samples of a local grid
Outside(j, grid) == final_grid[j] < grid[1] \/ final_grid[j] > grid[Len(grid)]

\* C12: a pass of the accumulation loop leaves the spectrum unchanged (adds
\* exactly zero) at every global grid point strictly below the first or strictly
\* above the last sample of the local grid it adds; and when no line survives
\* cropping the accumulated spectrum before noise is zero at every grid point.
C12_ZeroOutsideLocalGrid ==
    /\ [][pc = "accumulate" =>
            \A j \in 1..Len(final_grid) :
                Outside(j, individual_spectra[k].grid) =>
                    final_spectrum'[j] = final_spectrum[j]]_vars
    /\ []((Acquire /\ pc = "signal_noise" /\ Len(line_freq) = 0) =>
            /\ Len(final_spectrum) = Len(final_grid)
            /\ \A j \in 1..Len(final_grid) : final_spectrum[j] = Fin(0))

C12_Witness ==
    /\ Acquire /\ pc = "signal_noise" /\ Len(individual_spectra) > 0
    /\ \E i \in 1..Len(individual_spectra) :
          /\ \A m \in 1..Len(individual_spectra[i].spectrum) :
                individual_spectra[i].spectrum[m] > 0
          /\ \E j \in 1..Len(final_grid) : Outside(j, individual_spectra[i].grid)
          /\ \E j \in 1..Len(final_grid) : ~Outside(j, individual_spectra[i].grid)
    /\ \E j \in 1..Len(final_grid) : final_spectrum[j] = Fin(0)
    /\ \E j \in 1..Len(final_grid) : final_spectrum[j] # Fin(0)

\* the place of a stage in the order of the pipeline
Rank(stage) ==
    CASE stage = "accumulate" -> 1
      [] stage = "signal_noise" -> 2
      [] stage = "cavity_response" -> 3
      [] stage = "cavity_noise" -> 4
      [] stage = "multiply" -> 5
      [] stage = "abs" -> 6
      [] stage = "write_csv" -> 7
      [] OTHER -> 0

Count(stage) == Cardinality({i \in 1..Len(trace) : trace[i] = stage})

\* the accumulation of the first n surviving local spectra onto the global grid
RECURSIVE AccumulateKept(_)
AccumulateKept(n) ==
    IF n = 0 THEN [i \in 1..Len(final_grid) |-> Fin(0)]
    ELSE accumulate_one(AccumulateKept(n - 1), final_grid, individual_spectra[n])

\* C13: the stages never run out of order (accumulation, signal noise, cavity
\* response, cavity noise, multiplication, absolute value), and in a successful
\* run each ran, the noise went onto the spectrum accumulated from all surviving
\* lines, and the result is |(accumulated + signal noise) * (response + cavity
\* noise)|: the response is multiplied in only with its noise, and no signal
\* noise is added after the multiplication.
C13_StageOrder ==
    Acquire =>
        /\ \A i \in 1..Len(trace) : \A j \in (i + 1)..Len(trace) :
              /\ Rank(trace[i]) <= Rank(trace[j])
              /\ Rank(trace[i]) >= 2 => Rank(trace[i]) < Rank(trace[j])
        /\ Did("multiply") => Did("cavity_noise") /\ Did("signal_noise")
        /\ (Done /\ outcome = "returned" /\ result.success) =>
              /\ Count("accumulate") = Len(line_freq)
              /\ \A stage \in {"signal_noise", "cavity_response", "cavity_noise",
                                "multiply", "abs"} : Count(stage) = 1
              /\ accumulated = AccumulateKept(Len(individual_spectra))
              /\ Len(individual_spectra) = Len(line_freq)
              /\ result.y = np_abs(multiply(add_white_noise(accumulated, signal_noise),
                                            add_white_noise(cavity_clean, cavity_noise)))

C13_Witness ==
    /\ Success /\ Done /\ Len(line_freq) >= 2
    /\ Val(params["numCyclesPerStep"]) > 0
    /\ \E j \in 1..Len(result.y) :
          /\ signal_noise[j] # Fin(0) /\ cavity_noise[j] # Fin(0)
          /\ accumulated[j] # Fin(0)
          /\ result.y[j] # FAbs(FMul(accumulated[j], cavity_clean[j]))
          /\ result.y[j] # FAbs(FAdd(FMul(accumulated[j], cavity_response[j]), signal_noise[j]))

====
